---- MODULE Spec2Model ----
(***************************************************************************)
(* Model of src/repobuild.py: the PackageBuild class (shared download      *)
(* state table + condition variable, staging, build, export).              *)
(*                                                                         *)
(* Each worker is a thread driving one PackageBuild instance at a time.    *)
(* Every access to PackageBuild.source_state in the source happens inside  *)
(* a `with self.download_cond:` block, so each such block is one atomic    *)
(* action.  Steps that touch only the worker's own instance are merged     *)
(* with the neighbouring locked block.                                     *)
(*                                                                         *)
(* The source calls download_cond.wait() (line 239) but contains no call   *)
(* to notify() or notify_all() anywhere; Condition.wait() without a        *)
(* timeout returns only after a notify, so a worker that entered the wait  *)
(* has no further step.                                                    *)
(***************************************************************************)
EXTENDS Integers, FiniteSets, Sequences, TLC

\* ---------------------------------------------------------------- bounds
\* number of worker threads
NumWorkers == 2
\* largest Content-Length the modelled server declares
MaxLen == 2
\* READ_BUFFER_SIZE is 1 << 20 in the source; scaled to BufSize bytes here
BufSize == 2
\* the count of started transfers saturates here
MaxCount == 2

\* longest manifest (packages.yaml) main() is given
MaxManifest == 2
\* longest diagnostic string handed to LOG_STRIP_PATTERN
MaxStr == 4
\* how often a diagnostic is normalized again
MaxPasses == 2
\* members of the Platform enum
NumPlatforms == 7

Workers == 1..NumWorkers
\* the package names of the manifest
Packages == {"foo", "bar"}
READ_BUFFER_SIZE == BufSize

\* SourcePackageState, plus "Absent" for a name with no entry in the dict
SourcePackageState == {"InProgress", "Downloaded", "Failed"}
EntryStates == SourcePackageState \cup {"Absent"}

\* exception classes a call can end with ("None": the call returned)
Exceptions == {"ValueError", "OSError", "BuildError", "ContainerError"}

\* positions of a worker
\*   idle          between calls on its PackageBuild
\*   dl_lock       download_source_package, top of the while loop (line 223)
\*   cond_wait     inside download_cond.wait() (line 239)
\*   dl_open       owner, before mkdir/urlopen/open (line 242)
\*   dl_read       owner, at the head of the read loop (line 252)
\*   stage_copy    stage_files after download_source_package returned (line 316)
\*   build         build() entered (line 369)
\*   build_backend inside docker.images.build (line 373)
\*   export        export() entered (line 398)
\*   export_backend inside docker.containers.run (line 402)
PcValues == {"idle", "dl_lock", "cond_wait", "dl_open", "dl_read", "stage_copy",
             "build", "build_backend", "export", "export_backend"}
OwnerPcs == {"dl_open", "dl_read"}

VARIABLES
    source_state,   \* PackageBuild.source_state: package name -> entry
    archive,        \* the file at source_archive_path: absent/partial/complete
    transfers,      \* per package, number of urlopen calls made (saturating)
    pc,             \* position of each worker
    package,        \* self.package of the worker's PackageBuild
    staged,         \* self.staged
    image,          \* self.image is not None
    ret,            \* value download_source_package returned to stage_files
    raised,         \* exception the worker's last finished call ended with
    content_length, \* owner's content_length local
    total_read,     \* owner's total_read local
    lock            \* thread inside a `with download_cond:` block, 0 if none

\* history of one unit: a docker.images.build call on it raised BuildError
VARIABLES build_failed

\* main(): the manifest read from packages.yaml, the two loop variables,
\* the statement main is at, and the (platform, package index) pairs whose
\* export has returned
VARIABLES manifest, m_platform, m_index, m_step, m_exported

\* one diagnostic string going through LOG_STRIP_PATTERN: the text, the text
\* before the last match, and the number of matches applied
VARIABLES log_input, log_text, log_prev, log_passes, log_m

core == <<source_state, archive, transfers, pc, package, staged, image, ret,
          raised, content_length, total_read, lock>>
mainVars == <<manifest, m_platform, m_index, m_step, m_exported>>
logVars == <<log_input, log_text, log_prev, log_passes, log_m>>

vars == <<core, build_failed, mainVars, logVars>>

shared == <<source_state, archive, transfers, lock>>
unit == <<package, staged, image>>
locals == <<content_length, total_read>>

Min(a, b) == IF a < b THEN a ELSE b

TypeOK ==
    /\ source_state \in [Packages -> EntryStates]
    /\ archive \in [Packages -> {"absent", "partial", "complete"}]
    /\ transfers \in [Packages -> 0..MaxCount]
    /\ pc \in [Workers -> PcValues]
    /\ package \in [Workers -> Packages]
    /\ staged \in [Workers -> BOOLEAN]
    /\ image \in [Workers -> BOOLEAN]
    /\ ret \in [Workers -> {"none", "True", "False"}]
    /\ raised \in [Workers -> Exceptions \cup {"None"}]
    /\ content_length \in [Workers -> 0..MaxLen]
    /\ total_read \in [Workers -> 0..MaxLen]
    /\ lock \in Workers \cup {0}

\* class attributes (lines 163-165) and PackageBuild.__init__ (lines 167-187)
CoreInit ==
    /\ source_state = [p \in Packages |-> "Absent"]
    /\ archive = [p \in Packages |-> "absent"]
    /\ transfers = [p \in Packages |-> 0]
    /\ pc = [w \in Workers |-> "idle"]
    /\ package \in [Workers -> Packages]
    /\ staged = [w \in Workers |-> FALSE]
    /\ image = [w \in Workers |-> FALSE]
    /\ ret = [w \in Workers |-> "none"]
    /\ raised = [w \in Workers |-> "None"]
    /\ content_length = [w \in Workers |-> 0]
    /\ total_read = [w \in Workers |-> 0]
    /\ lock = 0

\* no build has failed, main() has not started, no diagnostic is in hand
AuxInit ==
    /\ build_failed = [w \in Workers |-> FALSE]
    /\ manifest = <<>>
    /\ m_platform = 1
    /\ m_index = 1
    /\ m_step = "idle"
    /\ m_exported = <<>>
    /\ log_input = <<>>
    /\ log_text = <<>>
    /\ log_prev = <<>>
    /\ log_passes = 0
    /\ log_m = "none"

Init == CoreInit /\ AuxInit

\* the worker drops its PackageBuild and constructs the next one
NewUnit(w) ==
    /\ pc[w] = "idle"
    /\ \E p \in Packages :
         package' = [package EXCEPT ![w] = p]
    /\ staged' = [staged EXCEPT ![w] = FALSE]
    /\ image' = [image EXCEPT ![w] = FALSE]
    /\ raised' = [raised EXCEPT ![w] = "None"]
    /\ UNCHANGED <<shared, pc, ret, locals>>

\* stage_files is called: its first statement calls download_source_package
stage_files(w) ==
    /\ pc[w] = "idle"
    /\ pc' = [pc EXCEPT ![w] = "dl_lock"]
    /\ raised' = [raised EXCEPT ![w] = "None"]
    /\ UNCHANGED <<shared, unit, ret, locals>>

\* ------------------------------------------- download_source_package
\* line 226: no download in progress, the caller takes it
CanClaim_NoExclusion(state) == state # "Downloaded"
CanClaim(state) == state \in {"Absent", "Failed"}

\* line 232: already downloaded
AlreadyDownloaded_NoWait(state) == state \in {"Downloaded", "InProgress"}
AlreadyDownloaded(state) == state = "Downloaded"

\* line 272: what the owner returns; line 234: what a late caller returns
OwnerReturn_False == "False"
OwnerReturn == "True"
LateReturn == "False"

\* line 252: the read loop continues
MoreToRead(w) == total_read[w] < content_length[w]

\* line 224 and lines 269, 274: `with self.download_cond:` acquires the
\* condition's RLock, which is free or already held by the same thread
CanAcquire(w) == lock \in {0, w}

\* line 230: `break` leaves the with block, which releases the lock before
\* the transfer starts
LockAfterBreak_Held(w) == w
LockAfterBreak(w) == 0

\* lines 270-271: the entry an owner writes after a complete transfer
SuccessState_Failed == "Failed"
SuccessState == "Downloaded"

\* lines 275-276: the entry an owner writes in the except clause
FailureState_Remove == "Absent"
FailureState_Stale == "InProgress"
FailureState == "Failed"

Inc(n) == Min(n + 1, MaxCount)

\* lines 273-277: the except clause of an owner, reached from any statement
\* of the try block; the exception then leaves stage_files as well
OwnerFails(w, exc) ==
    /\ CanAcquire(w)
    /\ lock' = 0
    /\ source_state' = [source_state EXCEPT ![package[w]] = FailureState]
    /\ pc' = [pc EXCEPT ![w] = "idle"]
    /\ raised' = [raised EXCEPT ![w] = exc]
    /\ content_length' = [content_length EXCEPT ![w] = 0]
    /\ total_read' = [total_read EXCEPT ![w] = 0]
    /\ UNCHANGED <<unit, ret>>

\* lines 223-239: one pass of the while loop, under download_cond
dsp_Lock(w) ==
    /\ pc[w] = "dl_lock"
    /\ CanAcquire(w)
    /\ LET state == source_state[package[w]] IN
       IF CanClaim(state)
       THEN /\ source_state' = [source_state EXCEPT ![package[w]] = "InProgress"]
            /\ pc' = [pc EXCEPT ![w] = "dl_open"]
            /\ lock' = LockAfterBreak(w)
            /\ UNCHANGED ret
       ELSE IF AlreadyDownloaded(state)
       THEN /\ pc' = [pc EXCEPT ![w] = "stage_copy"]
            /\ ret' = [ret EXCEPT ![w] = LateReturn]
            /\ lock' = 0
            /\ UNCHANGED source_state
       ELSE \* wait() releases the lock and blocks
            /\ pc' = [pc EXCEPT ![w] = "cond_wait"]
            /\ lock' = 0
            /\ UNCHANGED <<source_state, ret>>
    /\ UNCHANGED <<archive, transfers, unit, raised, locals>>

\* lines 243-250: mkdir, urlopen, open(..., "wb"), the Content-Length header
dsp_Open(w) ==
    /\ pc[w] = "dl_open"
    /\ \/ \* mkdir or urlopen raises: no request was made, no file opened
          /\ OwnerFails(w, "OSError")
          /\ UNCHANGED <<archive, transfers>>
       \/ \* the request was made, open() raises
          /\ OwnerFails(w, "OSError")
          /\ transfers' = [transfers EXCEPT ![package[w]] = Inc(@)]
          /\ UNCHANGED archive
       \/ \* the file was truncated, int(getheader(...)) raises
          /\ OwnerFails(w, "ValueError")
          /\ transfers' = [transfers EXCEPT ![package[w]] = Inc(@)]
          /\ archive' = [archive EXCEPT ![package[w]] = "partial"]
       \/ \E len \in 0..MaxLen :
            /\ transfers' = [transfers EXCEPT ![package[w]] = Inc(@)]
            /\ archive' = [archive EXCEPT ![package[w]] = "partial"]
            /\ content_length' = [content_length EXCEPT ![w] = len]
            /\ total_read' = [total_read EXCEPT ![w] = 0]
            /\ pc' = [pc EXCEPT ![w] = "dl_read"]
            /\ UNCHANGED <<source_state, lock, unit, ret, raised>>

\* lines 254-261: readinto returned 0 before content_length was reached
ZeroRead_Break(w) ==
    /\ CanAcquire(w)
    /\ lock' = 0
    /\ source_state' = [source_state EXCEPT ![package[w]] = SuccessState]
    /\ pc' = [pc EXCEPT ![w] = "stage_copy"]
    /\ ret' = [ret EXCEPT ![w] = OwnerReturn]
    /\ content_length' = [content_length EXCEPT ![w] = 0]
    /\ total_read' = [total_read EXCEPT ![w] = 0]
    /\ UNCHANGED <<archive, transfers, unit, raised>>
ZeroRead(w) ==
    /\ OwnerFails(w, "ValueError")
    /\ UNCHANGED <<archive, transfers>>

\* lines 252-268: one iteration of the read loop
dsp_Read(w) ==
    /\ pc[w] = "dl_read"
    /\ MoreToRead(w)
    /\ \/ \* readinto or write raises
          /\ OwnerFails(w, "OSError")
          /\ UNCHANGED <<archive, transfers>>
       \/ \E n_read \in 0..Min(READ_BUFFER_SIZE, content_length[w] - total_read[w]) :
            IF n_read = 0
            THEN ZeroRead(w)
            ELSE /\ total_read' = [total_read EXCEPT ![w] = @ + n_read]
                 /\ UNCHANGED <<shared, pc, unit, ret, raised, content_length>>

\* lines 252, 269-272: the loop ends, the files are closed, Downloaded is
\* recorded under download_cond and True is returned
dsp_Done(w) ==
    /\ pc[w] = "dl_read"
    /\ ~MoreToRead(w)
    /\ CanAcquire(w)
    /\ lock' = 0
    /\ archive' = [archive EXCEPT ![package[w]] =
                      IF total_read[w] = content_length[w] THEN "complete" ELSE "partial"]
    /\ source_state' = [source_state EXCEPT ![package[w]] = SuccessState]
    /\ pc' = [pc EXCEPT ![w] = "stage_copy"]
    /\ ret' = [ret EXCEPT ![w] = OwnerReturn]
    /\ content_length' = [content_length EXCEPT ![w] = 0]
    /\ total_read' = [total_read EXCEPT ![w] = 0]
    /\ UNCHANGED <<transfers, unit, raised>>

\* --------------------------------------------------------- stage_files
\* lines 316-361 raise before line 363 is reached: staged keeps its value
StagedOnFailure_Early(w) == TRUE
StagedOnFailure(w) == staged[w]

\* lines 316-363: lstat, the tree walk, the archive and the Dockerfile
\* copies; any of them may raise, the last statement sets staged
stage_Copy(w) ==
    /\ pc[w] = "stage_copy"
    /\ pc' = [pc EXCEPT ![w] = "idle"]
    /\ ret' = [ret EXCEPT ![w] = "none"]
    /\ \/ /\ staged' = [staged EXCEPT ![w] = TRUE]
          /\ UNCHANGED raised
       \/ /\ raised' = [raised EXCEPT ![w] = "OSError"]
          /\ staged' = [staged EXCEPT ![w] = StagedOnFailure(w)]
    /\ UNCHANGED <<shared, package, image, locals>>

\* --------------------------------------------------------------- build
\* line 369: the precondition of build
BuildAllowed_Unchecked(w) == TRUE
BuildAllowed(w) == staged[w]

\* line 398: the precondition of export
ExportAllowed_Unchecked(w) == TRUE
ExportAllowed(w) == image[w]

\* build() is called
build(w) ==
    /\ pc[w] = "idle"
    /\ pc' = [pc EXCEPT ![w] = "build"]
    /\ raised' = [raised EXCEPT ![w] = "None"]
    /\ UNCHANGED <<shared, unit, ret, locals>>

\* lines 369-370
build_Check(w) ==
    /\ pc[w] = "build"
    /\ IF BuildAllowed(w)
       THEN /\ pc' = [pc EXCEPT ![w] = "build_backend"]
            /\ UNCHANGED raised
       ELSE /\ pc' = [pc EXCEPT ![w] = "idle"]
            /\ raised' = [raised EXCEPT ![w] = "ValueError"]
    /\ UNCHANGED <<shared, unit, ret, locals>>

\* line 373: when docker.images.build raises, self.image is not assigned
ImageOnFailure_Assigned(w) == TRUE
ImageOnFailure(w) == image[w]

\* lines 372-392: docker.images.build returns an image or raises BuildError
build_Backend(w) ==
    /\ pc[w] = "build_backend"
    /\ pc' = [pc EXCEPT ![w] = "idle"]
    /\ \/ /\ image' = [image EXCEPT ![w] = TRUE]
          /\ UNCHANGED raised
       \/ /\ raised' = [raised EXCEPT ![w] = "BuildError"]
          /\ image' = [image EXCEPT ![w] = ImageOnFailure(w)]
    /\ UNCHANGED <<shared, package, staged, ret, locals>>

\* -------------------------------------------------------------- export
\* export() is called
export(w) ==
    /\ pc[w] = "idle"
    /\ pc' = [pc EXCEPT ![w] = "export"]
    /\ raised' = [raised EXCEPT ![w] = "None"]
    /\ UNCHANGED <<shared, unit, ret, locals>>

\* lines 398-399
export_Check(w) ==
    /\ pc[w] = "export"
    /\ IF ExportAllowed(w)
       THEN /\ pc' = [pc EXCEPT ![w] = "export_backend"]
            /\ UNCHANGED raised
       ELSE /\ pc' = [pc EXCEPT ![w] = "idle"]
            /\ raised' = [raised EXCEPT ![w] = "ValueError"]
    /\ UNCHANGED <<shared, unit, ret, locals>>

\* lines 401-423: docker.containers.run returns or raises ContainerError
export_Backend(w) ==
    /\ pc[w] = "export_backend"
    /\ pc' = [pc EXCEPT ![w] = "idle"]
    /\ \/ UNCHANGED raised
       \/ raised' = [raised EXCEPT ![w] = "ContainerError"]
    /\ UNCHANGED <<shared, unit, ret, locals>>

\* ------------------------------------------------------- specification
Worker(w) ==
    \/ NewUnit(w)
    \/ stage_files(w)
    \/ dsp_Lock(w)
    \/ dsp_Open(w)
    \/ dsp_Read(w)
    \/ dsp_Done(w)
    \/ stage_Copy(w)
    \/ build(w)
    \/ build_Check(w)
    \/ build_Backend(w)
    \/ export(w)
    \/ export_Check(w)
    \/ export_Backend(w)

\* the threads' steps leave the unit history, main() and the diagnostic alone
Frozen == UNCHANGED <<build_failed, mainVars, logVars>>

Next ==
    \E w \in Workers :
        \/ NewUnit(w) /\ Frozen
        \/ stage_files(w) /\ Frozen
        \/ dsp_Lock(w) /\ Frozen
        \/ dsp_Open(w) /\ Frozen
        \/ dsp_Read(w) /\ Frozen
        \/ dsp_Done(w) /\ Frozen
        \/ stage_Copy(w) /\ Frozen
        \/ build(w) /\ Frozen
        \/ build_Check(w) /\ Frozen
        \/ build_Backend(w) /\ Frozen
        \/ export(w) /\ Frozen
        \/ export_Check(w) /\ Frozen
        \/ export_Backend(w) /\ Frozen

Spec == Init /\ [][Next]_vars

\* every thread that can take a step is eventually scheduled
FairSpec == Spec /\ \A w \in Workers : WF_vars(Worker(w) /\ Frozen)

\* ------------------------------------------------- one unit, one thread
\* a PackageBuild is driven by a single thread; the calls made on it in any
\* order, with the history of failed builds kept
UnitThread == 1

UnitNext ==
    \/ /\ NewUnit(UnitThread)
       /\ build_failed' = [build_failed EXCEPT ![UnitThread] = FALSE]
       /\ UNCHANGED <<mainVars, logVars>>
    \/ /\ build_Backend(UnitThread)
       /\ build_failed' = [build_failed EXCEPT ![UnitThread] =
                              @ \/ raised'[UnitThread] = "BuildError"]
       /\ UNCHANGED <<mainVars, logVars>>
    \/ stage_files(UnitThread) /\ Frozen
    \/ dsp_Lock(UnitThread) /\ Frozen
    \/ dsp_Open(UnitThread) /\ Frozen
    \/ dsp_Read(UnitThread) /\ Frozen
    \/ dsp_Done(UnitThread) /\ Frozen
    \/ stage_Copy(UnitThread) /\ Frozen
    \/ build(UnitThread) /\ Frozen
    \/ build_Check(UnitThread) /\ Frozen
    \/ export(UnitThread) /\ Frozen
    \/ export_Check(UnitThread) /\ Frozen
    \/ export_Backend(UnitThread) /\ Frozen

UnitSpec == Init /\ [][UnitNext]_vars

\* --------------------------------------------------------------- main
\* main() runs in one thread and drives one PackageBuild at a time
MainThread == 1

\* packages.yaml: an ordered list of package records
Manifests == UNION {[1..n -> Packages] : n \in 0..MaxManifest}

\* an exception leaving stage_files, build or export is not caught in main
AfterException_Continue == "loop"
AfterException == "aborted"

\* line 455: the inner loop takes the next package of the manifest
NextIndex_Skip(i) == i + 2
NextIndex(i) == i + 1

\* lines 432-452: the roots are created and the manifest is read
main_Load ==
    /\ m_step = "idle"
    /\ manifest' \in Manifests
    /\ m_platform' = 1
    /\ m_index' = 1
    /\ m_step' = "loop"
    /\ UNCHANGED <<core, build_failed, m_exported, logVars>>

\* lines 454-458: the heads of the two loops and the PackageBuild constructor
main_Loop ==
    /\ m_step = "loop"
    /\ IF m_platform > NumPlatforms
       THEN /\ m_step' = "done"
            /\ UNCHANGED <<core, manifest, m_platform, m_index>>
       ELSE IF m_index > Len(manifest)
       THEN /\ m_platform' = m_platform + 1
            /\ m_index' = 1
            /\ UNCHANGED <<core, manifest, m_step>>
       ELSE /\ NewUnit(MainThread)
            /\ package'[MainThread] = manifest[m_index]
            /\ m_step' = "stage_files"
            /\ UNCHANGED <<manifest, m_platform, m_index>>
    /\ UNCHANGED <<build_failed, m_exported, logVars>>

\* lines 460-462: the three calls, in this order
main_Call ==
    /\ \/ m_step = "stage_files" /\ stage_files(MainThread) /\ m_step' = "in_stage_files"
       \/ m_step = "build" /\ build(MainThread) /\ m_step' = "in_build"
       \/ m_step = "export" /\ export(MainThread) /\ m_step' = "in_export"
    /\ UNCHANGED <<build_failed, manifest, m_platform, m_index, m_exported, logVars>>

\* what main does when a step of the running call is taken: nothing while
\* the call runs, the next statement when it returned, and the end of main
\* when it raised
main_After ==
    /\ pc[MainThread] # "idle"
    /\ m_step \in {"in_stage_files", "in_build", "in_export"}
    /\ IF pc'[MainThread] # "idle"
       THEN UNCHANGED <<m_step, m_index, m_exported>>
       ELSE IF raised'[MainThread] # "None"
       THEN m_step' = AfterException /\ UNCHANGED <<m_index, m_exported>>
       ELSE IF m_step = "in_stage_files"
       THEN m_step' = "build" /\ UNCHANGED <<m_index, m_exported>>
       ELSE IF m_step = "in_build"
       THEN m_step' = "export" /\ UNCHANGED <<m_index, m_exported>>
       ELSE /\ m_step' = "loop"
            /\ m_index' = NextIndex(m_index)
            /\ m_exported' = Append(m_exported, <<m_platform, m_index>>)
    /\ UNCHANGED <<build_failed, manifest, m_platform, logVars>>

MainNext ==
    \/ main_Load
    \/ main_Loop
    \/ main_Call
    \/ dsp_Lock(MainThread) /\ main_After
    \/ dsp_Open(MainThread) /\ main_After
    \/ dsp_Read(MainThread) /\ main_After
    \/ dsp_Done(MainThread) /\ main_After
    \/ stage_Copy(MainThread) /\ main_After
    \/ build_Check(MainThread) /\ main_After
    \/ build_Backend(MainThread) /\ main_After
    \/ export_Check(MainThread) /\ main_After
    \/ export_Backend(MainThread) /\ main_After

MainSpec == Init /\ [][MainNext]_vars

\* ---------------------------------------------------- LOG_STRIP_PATTERN
\* ^(?:[ \n]*\n)?((?:.|\n+.)*)(?:\n[ \n]*)?$ applied with match(): no
\* DOTALL ("." is any character but newline) and no MULTILINE ("$" is the
\* end of the string or the place before a final newline). A position is
\* the number of characters consumed so far.
SP == " "
NL == "\n"
CH == "x"
Alphabet == {SP, NL, CH}
Strings == UNION {[1..n -> Alphabet] : n \in 0..MaxStr}

SetMax(S) == CHOOSE x \in S : \A y \in S : y <= x
SetMin(S) == CHOOSE x \in S : \A y \in S : x <= y

\* [ \n]* from position p: every position it can stop at
BlankRun(s, p) == {r \in p..Len(s) : \A i \in (p + 1)..r : s[i] \in {SP, NL}}

\* (?:[ \n]*\n)? from position 0: the positions it can end at; 0 is the
\* empty alternative of "?"
LeadEnds(s) == {0} \cup {b + 1 : b \in {r \in BlankRun(s, 0) : r < Len(s) /\ s[r + 1] = NL}}

\* the quantifiers are greedy: the longest alternative is tried first
Prefer_Lazy(S) == IF S \ {0} = {} THEN 0 ELSE SetMin(S \ {0})
Prefer(S) == SetMax(S)

\* one round of (?:.|\n+.) from position p, -1 when it cannot match:
\* "." takes one character that is not a newline; \n+. takes the whole run
\* of newlines (a shorter run leaves a newline for ".") and one more
Step(s, p) ==
    IF p >= Len(s) THEN -1
    ELSE IF s[p + 1] # NL THEN p + 1
    ELSE LET q == SetMax({r \in p..Len(s) : \A i \in (p + 1)..r : s[i] = NL})
         IN IF q < Len(s) THEN q + 1 ELSE -1

\* (?:.|\n+.)* from position p: every position it can stop at
RECURSIVE BodyEnds(_, _)
BodyEnds(s, p) == {p} \cup (IF Step(s, p) = -1 THEN {} ELSE BodyEnds(s, Step(s, p)))

\* (?:\n[ \n]*)? from position p: the positions it can end at
TailEnds(s, p) ==
    {p} \cup (IF p < Len(s) /\ s[p + 1] = NL THEN BlankRun(s, p + 1) ELSE {})

\* $ at position r
AtEnd(s, r) == r = Len(s) \/ (r = Len(s) - 1 /\ s[Len(s)] = NL)

\* group 1 ending at p lets the rest of the pattern match
BodyOk(s, p) == \E r \in TailEnds(s, p) : AtEnd(s, r)
\* the leading group ending at e lets the rest of the pattern match
LeadOk(s, e) == \E p \in BodyEnds(s, e) : BodyOk(s, p)

\* LOG_STRIP_PATTERN.match(s): m is None, or m.group(1)
Match(s) ==
    IF \A e \in LeadEnds(s) : ~LeadOk(s, e)
    THEN [matched |-> FALSE, group1 |-> <<>>]
    ELSE LET e == Prefer({x \in LeadEnds(s) : LeadOk(s, x)})
             p == SetMax({x \in BodyEnds(s, e) : BodyOk(s, x)})
         IN [matched |-> TRUE, group1 |-> SubSeq(s, e + 1, p)]

\* a log entry's "stream" or error message reaches the handler (lines
\* 380-388, 412-421)
log_Entry ==
    /\ log_m = "none"
    /\ log_input' \in Strings
    /\ log_text' = log_input'
    /\ log_m' = "entry"
    /\ UNCHANGED <<core, build_failed, mainVars, log_prev, log_passes>>

\* m = LOG_STRIP_PATTERN.match(text); assert m; m.group(1)
log_Match ==
    /\ log_m \in {"entry", "matched"}
    /\ log_passes < MaxPasses
    /\ IF Match(log_text).matched
       THEN /\ log_m' = "matched"
            /\ log_prev' = log_text
            /\ log_text' = Match(log_text).group1
            /\ log_passes' = log_passes + 1
       ELSE /\ log_m' = "failed"
            /\ UNCHANGED <<log_text, log_prev, log_passes>>
    /\ UNCHANGED <<core, build_failed, mainVars, log_input>>

LogNext == log_Entry \/ log_Match

LogSpec == Init /\ [][LogNext]_vars

\* ============================================================== claims
Owners(p) == {w \in Workers : pc[w] \in OwnerPcs /\ package[w] = p}
Blocked(w) == pc[w] = "cond_wait"
\* in this step w's download_source_package call returns to stage_files
Returns(w) == pc[w] # "stage_copy" /\ pc'[w] = "stage_copy"
\* in this step w takes ownership of its package
Claims(w) == pc[w] = "dl_lock" /\ pc'[w] = "dl_open"

\* C1: in every reachable state at most one worker holds download ownership
\* of a given package name (claimed InProgress, outcome not yet recorded).
C1_SingleOwner ==
    \A p \in Packages : Cardinality(Owners(p)) <= 1

\* C1 witness: one worker owns the transfer while another is kept out of it
C1_Witness ==
    \E w, v \in Workers :
        /\ w # v
        /\ package[w] = package[v]
        /\ pc[w] = "dl_read"
        /\ Blocked(v)

\* C2: when the owner's transfer succeeds, every worker blocked in the
\* condition wait on that package is woken and its call eventually returns
\* false (checked under fair scheduling of the threads).
C2_WaitersReturnAfterSuccess ==
    \A w \in Workers :
        (Blocked(w) /\ source_state[package[w]] = "Downloaded")
            ~> (pc[w] = "stage_copy" /\ ret[w] = "False")

\* C3 as stated: the network transfer of a package is executed at most once
\* per process.
C3_AtMostOneTransfer ==
    \A p \in Packages : transfers[p] <= 1

\* C3 amended: a transfer is started only by a worker that claimed the
\* package from absent or Failed while no other owner was running; every
\* transfer after the first follows a Failed entry; none is started once a
\* transfer has completed; only the owner issues the request.
C3_RetryOnlyAfterFailure ==
    [][\A w \in Workers : LET p == package[w] IN
        /\ (pc[w] # "dl_open" /\ pc'[w] = "dl_open") =>
              /\ source_state[p] \in {"Absent", "Failed"}
              /\ Owners(p) = {}
              /\ archive[p] # "complete"
              /\ (transfers[p] >= 1 => source_state[p] = "Failed")
        /\ (transfers'[p] # transfers[p]) =>
              \E o \in Owners(p) : pc[o] = "dl_open"
        /\ (source_state[p] = "Downloaded") =>
              (transfers'[p] = transfers[p] /\ archive'[p] = archive[p])
      ]_vars

\* C3 witness: a second transfer of the same package, after a failed one,
\* has completed
C3_Witness ==
    \E p \in Packages :
        /\ transfers[p] = 2
        /\ source_state[p] = "Downloaded"
        /\ archive[p] = "complete"

\* C4: download_source_package returns true iff the caller itself performed
\* the transfer, false iff the package was already Downloaded by another
\* owner; it never returns false for an absent, InProgress or Failed entry.
C4_ReturnValue ==
    [][\A w \in Workers : Returns(w) =>
        /\ ret'[w] \in {"True", "False"}
        /\ (ret'[w] = "True") <=> (w \in Owners(package[w]))
        /\ (ret'[w] = "False") <=>
              (source_state[package[w]] = "Downloaded" /\ w \notin Owners(package[w]))
        /\ source_state'[package[w]] = "Downloaded"
      ]_vars

\* C4 witness: of two calls for one package, one returned true and the
\* other false
C4_Witness ==
    \E w, v \in Workers :
        /\ package[w] = package[v]
        /\ pc[w] = "stage_copy" /\ ret[w] = "True"
        /\ pc[v] = "stage_copy" /\ ret[v] = "False"

\* C5: when the owner's transfer fails while other workers are blocked on
\* the package, every blocked waiter is released and eventually leaves the
\* wait (checked under fair scheduling of the threads).
C5_WaitersReleasedAfterFailure ==
    \A w \in Workers :
        (Blocked(w) /\ source_state[package[w]] = "Failed") ~> ~Blocked(w)

\* C6: an exception during an owned transfer sets the entry to Failed and
\* ends the owner's call with that exception; no other worker's call ends in
\* the same step, and a call that is at the lock or in the wait never ends
\* with an exception.
C6_FailureToOwnerOnly ==
    [][\A w \in Workers :
        /\ (pc[w] \in OwnerPcs /\ pc'[w] = "idle") =>
              /\ source_state'[package[w]] = "Failed"
              /\ raised'[w] \in Exceptions
              /\ \A v \in Workers \ {w} : pc'[v] = pc[v] /\ raised'[v] = raised[v]
        /\ (pc[w] \in {"dl_lock", "cond_wait"} /\ pc'[w] # pc[w]) =>
              (pc'[w] # "idle" /\ raised'[w] = "None")
      ]_vars

\* C6 witness: an owner's stage_files call ended with the transfer's
\* exception while another worker waits on the same package, unharmed
C6_Witness ==
    \E w, v \in Workers :
        /\ w # v
        /\ package[w] = package[v]
        /\ pc[w] = "idle" /\ raised[w] = "OSError" /\ ~staged[w]
        /\ source_state[package[w]] = "Failed"
        /\ Blocked(v) /\ raised[v] = "None"

\* C7: a call returns false only after an owner finished writing the
\* archive and recorded Downloaded, and ownership of a package that was
\* attempted before is claimed only after the failed owner recorded Failed;
\* in both cases no owner of that package is still running.
C7_CompletionBeforeProceed ==
    [][\A w \in Workers : LET p == package[w] IN
        /\ (Returns(w) /\ ret'[w] = "False") =>
              /\ source_state[p] = "Downloaded"
              /\ archive[p] = "complete"
              /\ Owners(p) = {}
        /\ (Claims(w) /\ source_state[p] # "Absent") =>
              /\ source_state[p] = "Failed"
              /\ Owners(p) = {}
      ]_vars

\* C7 witness: a caller passed the coordinator on another owner's download
\* that had first failed and was then repeated
C7_Witness ==
    \E w \in Workers :
        /\ pc[w] = "stage_copy" /\ ret[w] = "False"
        /\ transfers[package[w]] = 2
        /\ archive[package[w]] = "complete"

\* C8: every change of an entry follows absent -> InProgress,
\* InProgress -> Downloaded, InProgress -> Failed, Failed -> InProgress;
\* Downloaded is terminal and no entry returns to absent.
C8_Lifecycle ==
    [][\A p \in Packages :
        source_state'[p] # source_state[p] =>
            <<source_state[p], source_state'[p]>> \in
                { <<"Absent", "InProgress">>, <<"InProgress", "Downloaded">>,
                  <<"InProgress", "Failed">>, <<"Failed", "InProgress">> }
      ]_vars

\* C8 witness: one entry is Downloaded while another was re-claimed after a
\* failure
C8_Witness ==
    \E p, q \in Packages :
        /\ source_state[p] = "Downloaded"
        /\ source_state[q] = "InProgress" /\ archive[q] = "partial"
        /\ \E w \in Owners(q) : pc[w] = "dl_open"

\* C9: the backend image build runs only while staged is true, and the
\* backend run-and-extract only while an image handle is present.
C9_BackendPreconditions ==
    \A w \in Workers :
        /\ pc[w] = "build_backend" => staged[w]
        /\ pc[w] = "export_backend" => (image[w] /\ staged[w])

\* C9 witness: a unit is inside the backend run after it was staged and built
C9_Witness ==
    \E w \in Workers : pc[w] = "export_backend" /\ image[w] /\ staged[w]

\* C10: build on an unstaged unit, or export on a unit without an image,
\* ends at once with ValueError, before any backend call, and leaves staged
\* and the image handle unchanged.
C10_PreconditionError ==
    [][\A w \in Workers :
        /\ (pc[w] = "build" /\ ~staged[w] /\ pc'[w] # "build") =>
              /\ pc'[w] = "idle" /\ raised'[w] = "ValueError"
              /\ staged'[w] = staged[w] /\ image'[w] = image[w]
        /\ (pc[w] = "export" /\ ~image[w] /\ pc'[w] # "export") =>
              /\ pc'[w] = "idle" /\ raised'[w] = "ValueError"
              /\ staged'[w] = staged[w] /\ image'[w] = image[w]
      ]_vars

\* C10 witness: an export on a staged but unbuilt unit was rejected, and
\* so was a call on a unit whose package was never requested
C10_Witness ==
    \E w, v \in Workers :
        /\ pc[w] = "idle" /\ raised[w] = "ValueError"
        /\ staged[w] /\ ~image[w]
        /\ pc[v] = "idle" /\ raised[v] = "ValueError"
        /\ ~staged[v] /\ ~image[v] /\ source_state[package[v]] = "Absent"

\* positions inside stage_files
StagePcs == {"dl_lock", "cond_wait", "dl_open", "dl_read", "stage_copy"}
\* in this step w's stage_files call ends with an exception
StageFails(w) == pc[w] \in StagePcs /\ pc'[w] = "idle" /\ raised'[w] # "None"

\* C11: if stage_files fails at any step on a unit that is not staged, the
\* staged flag is still false afterwards, and while it is false no step
\* takes the unit into the backend build.
C11_FailedStagingBlocksBuild ==
    [][\A w \in Workers :
        /\ (StageFails(w) /\ ~staged[w]) => ~staged'[w]
        /\ ~staged[w] => pc'[w] # "build_backend"
      ]_vars

\* C11 witness: the copying failed after the download had succeeded, and
\* the unit is not staged
C11_Witness ==
    \E w \in Workers :
        /\ pc[w] = "idle" /\ raised[w] = "OSError" /\ ~staged[w]
        /\ source_state[package[w]] = "Downloaded"

C17_StagedGuardsStaging ==
    \A w \in Workers : staged[w] => pc[w] \notin StagePcs

\* C17 amended: staged changes from false to true only as the last step of
\* a stage_files call that ends without exception, and goes back to false
\* only when the worker constructs a fresh unit; stage_files has no guard:
\* a call on a staged unit passes the coordinator without waiting and
\* without a transfer (it returns false) and runs the copying again.
C17_StagedOnce ==
    [][\A w \in Workers :
        /\ (~staged[w] /\ staged'[w]) =>
              (pc[w] = "stage_copy" /\ pc'[w] = "idle" /\ raised'[w] = "None")
        /\ (staged[w] /\ ~staged'[w]) =>
              (pc[w] = "idle" /\ pc'[w] = "idle" /\ ~image'[w] /\ raised'[w] = "None")
        /\ staged[w] => pc'[w] \notin {"cond_wait", "dl_open", "dl_read"}
        /\ (staged[w] /\ pc'[w] = "stage_copy") => ret'[w] = "False"
        /\ (staged[w] /\ pc[w] = "stage_copy" /\ pc'[w] # pc[w]) => staged'[w]
      ]_vars

\* C17 witness: a staged unit is in the copying part of stage_files again
C17_Witness ==
    \E w \in Workers : staged[w] /\ pc[w] = "stage_copy" /\ ret[w] = "False"

\* C18: the coordination lock is free while a transfer runs: a caller at
\* the lock whose package is absent or Failed can claim it at once, whatever
\* other packages are being transferred, and a caller whose package is
\* Downloaded can return false at once.
C18_LockFreeDuringTransfer ==
    /\ lock = 0
    /\ \A w \in Workers :
        /\ (pc[w] = "dl_lock" /\ source_state[package[w]] \in {"Absent", "Failed"}) =>
              ENABLED (dsp_Lock(w) /\ pc'[w] = "dl_open")
        /\ (pc[w] = "dl_lock" /\ source_state[package[w]] = "Downloaded") =>
              ENABLED (dsp_Lock(w) /\ pc'[w] = "stage_copy" /\ ret'[w] = "False")

\* C18 witness: two transfers of different packages run at the same time
C18_Witness ==
    \E w, v \in Workers :
        /\ package[w] # package[v]
        /\ pc[w] = "dl_read" /\ pc[v] = "dl_read"

\* C19: an entry is InProgress iff exactly one worker is between claiming
\* it and recording its outcome; with no such worker the entry is absent,
\* Downloaded or Failed.
C19_NoStaleOwnership ==
    \A p \in Packages :
        /\ (source_state[p] = "InProgress") <=> (Cardinality(Owners(p)) = 1)
        /\ (Owners(p) = {}) <=> (source_state[p] \in {"Absent", "Downloaded", "Failed"})

\* C19 witness: one owner's call has raised and left Failed while another
\* package is InProgress with its owner at work
C19_Witness ==
    \E p, q \in Packages : \E w \in Workers :
        /\ source_state[p] = "Failed" /\ Owners(p) = {}
        /\ pc[w] = "idle" /\ package[w] = p /\ raised[w] \in Exceptions
        /\ source_state[q] = "InProgress" /\ Owners(q) # {}

\* C20: a staged unit's package is Downloaded with a complete archive, and
\* the copying part of stage_files is reached only after that unit's
\* download_source_package call returned, with the package Downloaded.
C20_StagedAfterDownload ==
    \A w \in Workers :
        /\ staged[w] =>
              (source_state[package[w]] = "Downloaded" /\ archive[package[w]] = "complete")
        /\ pc[w] = "stage_copy" =>
              /\ ret[w] \in {"True", "False"}
              /\ source_state[package[w]] = "Downloaded"
              /\ archive[package[w]] = "complete"
        /\ pc[w] # "stage_copy" => ret[w] = "none"

\* C20 witness: two units of one package are staged from the one download
C20_Witness ==
    \E w, v \in Workers :
        /\ w # v /\ package[w] = package[v]
        /\ staged[w] /\ staged[v]
        /\ transfers[package[w]] = 1

\* C12 as stated: once a build attempt on a unit has failed, no later
\* export call on that unit invokes the backend run-and-extract.
C12_FailedIsAbsorbing ==
    \A w \in Workers : build_failed[w] => pc[w] # "export_backend"

\* C12 amended: a backend build failure is re-raised to the caller as
\* BuildError and leaves staged and the image handle as they were; there is
\* no absorbing Failed state: after a failed build an export reaches the
\* backend run-and-extract only if some build of that unit succeeded, and
\* is rejected otherwise.
C12_BuildFailureKeepsImage ==
    [][\A w \in Workers :
        /\ (pc[w] = "build_backend" /\ pc'[w] = "idle" /\ raised'[w] # "None") =>
              /\ raised'[w] = "BuildError"
              /\ build_failed'[w]
              /\ image'[w] = image[w] /\ staged'[w] = staged[w]
        /\ (build_failed[w] /\ ~image[w]) => pc'[w] # "export_backend"
        /\ (build_failed[w] /\ ~image[w] /\ pc[w] = "export" /\ pc'[w] # "export") =>
              (pc'[w] = "idle" /\ raised'[w] = "ValueError")
      ]_vars

\* C12 witness: the only build of a unit failed and the export that
\* followed was rejected
C12_Witness ==
    \E w \in Workers :
        /\ build_failed[w] /\ staged[w] /\ ~image[w]
        /\ pc[w] = "idle" /\ raised[w] = "ValueError"

\* the platform x package matrix in lexicographic order: platforms in
\* catalog order, then packages by manifest position
MatrixOrder ==
    [k \in 1..(NumPlatforms * Len(manifest)) |->
        <<((k - 1) \div Len(manifest)) + 1, ((k - 1) % Len(manifest)) + 1>>]
IsPrefix(a, b) == Len(a) <= Len(b) /\ \A k \in 1..Len(a) : a[k] = b[k]
\* main is at one of the three calls of a unit
UnitSteps == {"stage_files", "in_stage_files", "build", "in_build", "export", "in_export"}

\* C13: when stage_files, build or export of a unit raises, main ends
\* there: from then on no backend call is made, no unit is staged, built or
\* exported and nothing is downloaded.
C13_AbortOnFirstFailure ==
    [][/\ (raised[MainThread] = "None" /\ raised'[MainThread] # "None") =>
              m_step' = "aborted"
       /\ m_step = "aborted" =>
              /\ m_step' = "aborted"
              /\ pc' = pc /\ staged' = staged /\ image' = image
              /\ m_exported' = m_exported
              /\ source_state' = source_state /\ transfers' = transfers
      ]_vars

\* C13 witness: the build of a later unit failed after an earlier unit was
\* exported, and main has ended
C13_Witness ==
    /\ m_step = "aborted"
    /\ raised[MainThread] = "BuildError"
    /\ Len(m_exported) >= 1
    /\ Len(m_exported) < Len(MatrixOrder)

\* C14: main handles the matrix in lexicographic order (platform, then
\* manifest position), for each unit stage, then build, then export, one
\* unit at a time; when main returns every pair was exported exactly once.
C14_MatrixOrder ==
    /\ IsPrefix(m_exported, MatrixOrder)
    /\ m_step = "done" => m_exported = MatrixOrder
    /\ m_step \in UnitSteps =>
          /\ m_platform \in 1..NumPlatforms /\ m_index \in 1..Len(manifest)
          /\ Len(m_exported) = (m_platform - 1) * Len(manifest) + (m_index - 1)
          /\ package[MainThread] = manifest[m_index]
    /\ m_step \in {"stage_files", "in_stage_files"} => (~staged[MainThread] /\ ~image[MainThread])
    /\ m_step \in {"build", "in_build"} => (staged[MainThread] /\ ~image[MainThread])
    /\ m_step \in {"export", "in_export"} => (staged[MainThread] /\ image[MainThread])

\* C14 witness: main returned after exporting a two-package manifest on
\* every platform
C14_Witness ==
    /\ m_step = "done"
    /\ Len(manifest) = 2
    /\ Len(m_exported) = 2 * NumPlatforms

\* C16: LOG_STRIP_PATTERN matches every string over {space, newline, x}
\* (assert m never fails), and normalizing a normalized string returns it
\* unchanged.
C16_NormalizeIdempotent ==
    /\ log_m # "failed"
    /\ Match(log_text).matched
    /\ log_passes >= 1 => Match(log_text).group1 = log_text
    /\ log_passes >= 2 => log_text = log_prev

\* C16 witness: a diagnostic that lost a leading and a trailing blank part,
\* kept an inner newline, and was normalized a second time
C16_Witness ==
    /\ log_passes = 2
    /\ log_m = "matched"
    /\ Len(log_input) = 4
    /\ log_input[1] = NL
    /\ log_input[4] = NL
    /\ Len(log_text) < Len(log_input)
    /\ log_text = log_prev

====
